---------------------------- MODULE Spec2Model ----------------------------
(***************************************************************************)
(* A model of isal.igzip (src/src/isal/igzip.py): the gzip writer          *)
(* IGzipFile, the streaming reader _IGzipReader on top of the push-back    *)
(* file gzip._PaddedFile, the one-shot functions compress and decompress,  *)
(* the function open and the command line main.                            *)
(*                                                                         *)
(* Bytes are small naturals.  A member on the wire is                      *)
(*     ID1 ID2  <deflate codes>  EOB  <crc>  <isize>                       *)
(* where the deflate codes are literals (LitBase + d), two-byte runs       *)
(* (DupBase + d: the byte d twice, the shape of a deflate match) and the   *)
(* end-of-block code EOB.  The codec isal_zlib is not part of src/ and is  *)
(* modelled from its interface: an incremental compressor that holds back  *)
(* input, an incremental decompressor with max_length, eof, unused_data    *)
(* and unconsumed_tail, and a running checksum.                            *)
(***************************************************************************)
EXTENDS Integers, Sequences, FiniteSets, TLC

VARIABLES rd,   \* the streaming reader and its source
          wr,   \* the writer and its sink
          os,   \* one call sequence of the one-shot API
          op,   \* one call of open
          cli   \* one run of the command line

vars == <<rd, wr, os, op, cli>>

---------------------------------------------------------------------------
(* Bounds of the model *)

MaxLen == 2        \* longest payload of one member / longest write
MaxMembers == 3    \* most members in one source
MaxChunk == 2      \* a source delivers 1..MaxChunk bytes per physical read, or everything
MaxRead == 2       \* largest size of a bounded read
MaxCalls == 3      \* most write and close calls on one writer
MaxLoop == 24      \* iterations of a read loop that are followed
CrcMod == 5        \* range of the checksum (the model's 2^32)
SizeMod == 3       \* range of the trailer's size field (the model's 2^32)
MaxPath == 4       \* longest path on the command line

Byte == {0, 1}

---------------------------------------------------------------------------
(* Wire constants and program constants *)

ID1 == 31
ID2 == 139
EOB == 0
LitBase == 64
DupBase == 96

ISAL_BEST_SPEED == 0
ISAL_DEFAULT_COMPRESSION == 2
ISAL_BEST_COMPRESSION == 3

BUFFER_SIZE == 8192
BLOCK_SIZE == 65536

---------------------------------------------------------------------------
(* Python helpers *)

\* index normalisation of a Python slice bound
PyIndex(k, n) == IF k < 0 THEN (IF k + n < 0 THEN 0 ELSE k + n)
                 ELSE (IF k > n THEN n ELSE k)

\* s[i:j]
PySlice(s, i, j) ==
    LET a == PyIndex(i, Len(s))
        b == PyIndex(j, Len(s))
    IN  IF a >= b THEN <<>> ELSE SubSeq(s, a + 1, b)

\* s[i:]
PyFrom(s, i) == PySlice(s, i, Len(s))

Min(a, b) == IF a < b THEN a ELSE b

RECURSIVE SeqsUpTo(_)
SeqsUpTo(n) == IF n = 0 THEN {<<>>}
               ELSE SeqsUpTo(n - 1) \cup
                    {Append(s, b) : s \in {t \in SeqsUpTo(n - 1) : Len(t) = n - 1}, b \in Byte}

IsPrefix(s, t) == Len(s) <= Len(t) /\ SubSeq(t, 1, Len(s)) = s

---------------------------------------------------------------------------
(* The codec: isal_zlib *)

CrcStep(c, b) == (3 * c + b + 1) % CrcMod

\* isal_zlib.crc32(data, value)
RECURSIVE crc32(_, _)
crc32(data, value) ==
    IF data = <<>> THEN value
    ELSE crc32(Tail(data), CrcStep(value, Head(data)))

\* isal_zlib.compressobj(level, DEFLATED, -MAX_WBITS, DEF_MEM_LEVEL, 0):
\* a raw deflate compressor; hold is input it has absorbed and not yet emitted
compressobj(level) == [level |-> level, hold |-> <<>>]

\* compressobj.compress(data): level 0 emits a literal per byte, the other
\* levels hold one byte back to pair it with an equal successor
RECURSIVE CompressFeed(_, _, _)
CompressFeed(c, data, out) ==
    IF data = <<>> THEN [c |-> c, out |-> out]
    ELSE LET b == Head(data) IN
         IF c.level = 0
         THEN CompressFeed(c, Tail(data), Append(out, LitBase + b))
         ELSE IF c.hold = <<>>
         THEN CompressFeed([c EXCEPT !.hold = <<b>>], Tail(data), out)
         ELSE IF c.hold[1] = b
         THEN CompressFeed([c EXCEPT !.hold = <<>>], Tail(data), Append(out, DupBase + b))
         ELSE CompressFeed([c EXCEPT !.hold = <<b>>], Tail(data),
                           Append(out, LitBase + c.hold[1]))

\* compressobj.flush(): emits what is held back and ends the deflate stream
CompressFlush(c) ==
    [c |-> [c EXCEPT !.hold = <<>>],
     out |-> (IF c.hold = <<>> THEN <<>> ELSE <<LitBase + c.hold[1]>>) \o <<EOB>>]

\* isal_zlib.decompressobj(wbits=16 + MAX_WBITS): a gzip decompressor
decompressobj ==
    [st |-> "hdr1", pend |-> <<>>, crc |-> 0, size |-> 0, eof |-> FALSE,
     unused_data |-> <<>>, unconsumed_tail |-> <<>>]

IsLit(c) == \E b \in Byte : c = LitBase + b
IsDup(c) == \E b \in Byte : c = DupBase + b

\* max_length reached (a negative max is no limit)
OutputFull(out, max) == max >= 0 /\ Len(out) >= max

\* The inflate loop.  It delivers pending output first, stops when the
\* output is full (a lazy codec at once, an eager one when the next code
\* would produce output), and otherwise consumes one input byte.
RECURSIVE Inflate(_, _, _, _, _)
Inflate(d, in, out, max, eager) ==
    LET stop == [d |-> d, in |-> in, out |-> out, err |-> FALSE]
        fail == [d |-> [d EXCEPT !.st = "bad"], in |-> in, out |-> out, err |-> TRUE]
    IN
    IF d.st = "bad" THEN fail
    ELSE IF d.pend # <<>> THEN
        IF OutputFull(out, max) THEN stop
        ELSE Inflate([d EXCEPT !.pend = Tail(@),
                               !.crc = CrcStep(@, Head(d.pend)),
                               !.size = @ + 1],
                     in, Append(out, Head(d.pend)), max, eager)
    ELSE IF d.st = "done" \/ in = <<>> THEN stop
    ELSE IF OutputFull(out, max)
            /\ (~eager \/ (d.st = "body" /\ Head(in) # EOB)) THEN stop
    ELSE LET c == Head(in)
             rest == Tail(in)
         IN CASE d.st = "hdr1" ->
                   IF c = ID1 THEN Inflate([d EXCEPT !.st = "hdr2"], rest, out, max, eager)
                   ELSE fail
              [] d.st = "hdr2" ->
                   IF c = ID2 THEN Inflate([d EXCEPT !.st = "body"], rest, out, max, eager)
                   ELSE fail
              [] d.st = "body" ->
                   IF c = EOB THEN Inflate([d EXCEPT !.st = "crc"], rest, out, max, eager)
                   ELSE IF IsLit(c)
                   THEN Inflate([d EXCEPT !.pend = <<c - LitBase>>], rest, out, max, eager)
                   ELSE IF IsDup(c)
                   THEN Inflate([d EXCEPT !.pend = <<c - DupBase, c - DupBase>>],
                                rest, out, max, eager)
                   ELSE fail
              [] d.st = "crc" ->
                   IF c = d.crc THEN Inflate([d EXCEPT !.st = "isize"], rest, out, max, eager)
                   ELSE fail
              [] d.st = "isize" ->
                   IF c = d.size % SizeMod
                   THEN Inflate([d EXCEPT !.st = "done", !.eof = TRUE], rest, out, max, eager)
                   ELSE fail

\* decompressobj.decompress(data, max_length): the inflate loop, then the
\* input that was left goes to unused_data after the end of the member and
\* to unconsumed_tail before it.  An error leaves the attributes alone.
Decompress(d, data, max, eager) ==
    LET r == Inflate(d, data, <<>>, max, eager) IN
    IF r.err THEN [d |-> r.d, out |-> <<>>, err |-> TRUE]
    ELSE [d |-> [r.d EXCEPT !.unused_data = IF r.d.eof THEN @ \o r.in ELSE @,
                            !.unconsumed_tail = IF r.d.eof THEN <<>> ELSE r.in],
          out |-> r.out, err |-> FALSE]

\* isal_zlib.decompress(data, wbits): one call on the whole input, which
\* decodes one member and fails when that member is incomplete
OneShotDecompress(data, eager) ==
    LET r == Inflate(decompressobj, data, <<>>, -1, eager) IN
    IF r.err THEN [out |-> <<>>, err |-> "IsalError"]
    ELSE IF ~r.d.eof THEN [out |-> <<>>, err |-> "IsalError"]
    ELSE [out |-> r.out, err |-> "none"]

---------------------------------------------------------------------------
(* The writer: IGzipFile in write mode, on gzip.GzipFile *)

LevelOK(compresslevel) ==
    ISAL_BEST_SPEED <= compresslevel /\ compresslevel <= ISAL_BEST_COMPRESSION

\* a writer object before its constructor ran; sink is the content of the
\* file the object writes to, myfileobj says that the constructor opened it.
\* The caller's record of its calls: op is the latest call and arg its
\* argument, closes counts the close calls, sink1 is the sink as the first
\* close left it, kept says that the latest write left the sink, the
\* compressor, crc, size and offset as they were
NoWriter ==
    [st |-> "none", mode |-> "wb", level |-> 0, byName |-> FALSE,
     myfileobj |-> FALSE, sink |-> <<>>, compress |-> compressobj(0),
     crc |-> 0, size |-> 0, offset |-> 0,
     err |-> "none", ret |-> 0, written |-> <<>>, calls |-> 0,
     op |-> "none", arg |-> <<>>, closes |-> 0, sink1 |-> <<>>,
     kept |-> TRUE]

\* gzip.GzipFile.__init__ followed by the replacement of the compressor:
\* opens the file when it got a name, and in write mode resets the digest
\* and writes the member header
GzipFileInit(w, level, mode, byName) ==
    LET o == [w EXCEPT !.st = "open", !.mode = mode, !.level = level,
                       !.byName = byName, !.myfileobj = byName]
    IN  IF mode = "wb"
        THEN [o EXCEPT !.crc = crc32(<<>>, 0), !.size = 0, !.offset = 0,
                       !.compress = compressobj(level),
                       !.sink = @ \o <<ID1, ID2>>]
        ELSE o

\* a constructor that validates the level after the base constructor ran
IGzipFileInit_CheckAfter(w, level, mode, byName) ==
    LET o == GzipFileInit(w, level, mode, byName) IN
    IF ~LevelOK(level)
    THEN [o EXCEPT !.st = "invalid", !.err = "ValueError"]
    ELSE o

\* IGzipFile.__init__
IGzipFileInit(w, level, mode, byName) ==
    IF ~LevelOK(level)
    THEN [w EXCEPT !.st = "invalid", !.level = level, !.mode = mode,
                   !.byName = byName, !.err = "ValueError"]
    ELSE GzipFileInit(w, level, mode, byName)

\* a write that restarts the checksum at every call
IGzipFileWrite_SeedZero(w, data) ==
    IF w.st = "closed" THEN [w EXCEPT !.err = "ValueError"]
    ELSE IF w.mode # "wb" THEN [w EXCEPT !.err = "OSError"]
    ELSE LET length == Len(data)
             c == CompressFeed(w.compress, data, <<>>)
         IN  IF length > 0
             THEN [w EXCEPT !.sink = @ \o c.out,
                            !.compress = c.c,
                            !.size = @ + length,
                            !.crc = crc32(data, 0),
                            !.offset = @ + length,
                            !.err = "none", !.ret = length,
                            !.written = @ \o data]
             ELSE [w EXCEPT !.err = "none", !.ret = length]

\* a write that reports what the compressor emitted for the call
IGzipFileWrite_Emitted(w, data) ==
    IF w.st = "closed" THEN [w EXCEPT !.err = "ValueError"]
    ELSE IF w.mode # "wb" THEN [w EXCEPT !.err = "OSError"]
    ELSE LET length == Len(data)
             c == CompressFeed(w.compress, data, <<>>)
         IN  IF length > 0
             THEN [w EXCEPT !.sink = @ \o c.out,
                            !.compress = c.c,
                            !.size = @ + length,
                            !.crc = crc32(data, @),
                            !.offset = @ + length,
                            !.err = "none", !.ret = Len(c.out),
                            !.written = @ \o data]
             ELSE [w EXCEPT !.err = "none", !.ret = length]

\* a write that does not look at the state or the mode of the object
IGzipFileWrite_Unchecked(w, data) ==
    LET length == Len(data)
        c == CompressFeed(w.compress, data, <<>>)
    IN  IF length > 0
        THEN [w EXCEPT !.sink = @ \o c.out,
                       !.compress = c.c,
                       !.size = @ + length,
                       !.crc = crc32(data, @),
                       !.offset = @ + length,
                       !.err = "none", !.ret = length,
                       !.written = @ \o data]
        ELSE [w EXCEPT !.err = "none", !.ret = length]

\* IGzipFile.write
IGzipFileWrite(w, data) ==
    IF w.st = "closed" THEN [w EXCEPT !.err = "ValueError"]
    ELSE IF w.mode # "wb" THEN [w EXCEPT !.err = "OSError"]
    ELSE LET length == Len(data)
             c == CompressFeed(w.compress, data, <<>>)
         IN  IF length > 0
             THEN [w EXCEPT !.sink = @ \o c.out,
                            !.compress = c.c,
                            !.size = @ + length,
                            !.crc = crc32(data, @),
                            !.offset = @ + length,
                            !.err = "none", !.ret = length,
                            !.written = @ \o data]
             ELSE [w EXCEPT !.err = "none", !.ret = length]

\* IGzipFile.write over a sink whose write raises: the argument of
\* fileobj.write is evaluated first, so the compressor has taken the data
\* when the exception leaves the method before size, crc and offset are
\* updated; an empty argument does not reach the sink
IGzipFileWriteSinkRaises(w, data) ==
    IF w.st = "closed" THEN [w EXCEPT !.err = "ValueError"]
    ELSE IF w.mode # "wb" THEN [w EXCEPT !.err = "OSError"]
    ELSE LET length == Len(data)
             c == CompressFeed(w.compress, data, <<>>)
         IN  IF length > 0
             THEN [w EXCEPT !.compress = c.c, !.err = "SinkError"]
             ELSE [w EXCEPT !.err = "none", !.ret = length]

\* a close that finalizes the member at every call
GzipFileClose_Again(w) ==
    IF w.mode = "wb"
    THEN LET f == CompressFlush(w.compress) IN
         [w EXCEPT !.st = "closed", !.compress = f.c, !.err = "none",
                   !.sink = @ \o f.out \o <<w.crc, w.size % SizeMod>>]
    ELSE [w EXCEPT !.st = "closed", !.err = "none"]

\* gzip.GzipFile.close
GzipFileClose(w) ==
    IF w.st = "closed" THEN [w EXCEPT !.err = "none"]
    ELSE IF w.mode = "wb"
    THEN LET f == CompressFlush(w.compress) IN
         [w EXCEPT !.st = "closed", !.compress = f.c, !.err = "none",
                   !.sink = @ \o f.out \o <<w.crc, w.size % SizeMod>>]
    ELSE [w EXCEPT !.st = "closed", !.err = "none"]

\* a compress that returns the sink without closing the writer
compress_NoClose(data, compresslevel) ==
    LET f == IGzipFileInit(NoWriter, compresslevel, "wb", FALSE) IN
    IF f.st = "invalid" THEN [out |-> f.sink, err |-> "ValueError"]
    ELSE [out |-> IGzipFileWrite(f, data).sink, err |-> "none"]

\* igzip.compress(data, compresslevel)
compress(data, compresslevel) ==
    LET f == IGzipFileInit(NoWriter, compresslevel, "wb", FALSE) IN
    IF f.st = "invalid" THEN [out |-> f.sink, err |-> "ValueError"]
    ELSE [out |-> GzipFileClose(IGzipFileWrite(f, data)).sink, err |-> "none"]

\* igzip.decompress(data)
decompress(data, eager) == OneShotDecompress(data, eager)

---------------------------------------------------------------------------
(* The push-back file: gzip._PaddedFile over the source *)

\* file is the content of the source, fpos its position, chunk the most
\* bytes one physical read delivers (0: as many as asked for);
\* readNone stands for _read = None
PaddedFile(file, chunk) ==
    [file |-> file, fpos |-> 0, chunk |-> chunk,
     buffer |-> <<>>, length |-> 0, read |-> 0, readNone |-> FALSE]

\* self.file.read(n)
FileRead(f, n) ==
    LET avail == Len(f.file) - f.fpos
        want == IF f.chunk > 0 THEN Min(n, f.chunk) ELSE n
        k == Min(want, avail)
    IN  [f |-> [f EXCEPT !.fpos = @ + k],
         data |-> SubSeq(f.file, f.fpos + 1, f.fpos + k)]

\* _PaddedFile.read(size)
PaddedRead(f, size) ==
    IF f.readNone THEN FileRead(f, size)
    ELSE IF f.read + size <= f.length
    THEN [f |-> [f EXCEPT !.read = @ + size],
          data |-> PySlice(f.buffer, f.read, f.read + size)]
    ELSE LET r == FileRead([f EXCEPT !.readNone = TRUE], size - f.length + f.read)
         IN  [f |-> r.f, data |-> PyFrom(f.buffer, f.read) \o r.data]

\* _PaddedFile.prepend(prepend)
PaddedPrepend(f, prepend) ==
    IF f.readNone
    THEN [f EXCEPT !.buffer = prepend, !.length = Len(prepend),
                   !.read = 0, !.readNone = FALSE]
    ELSE [f EXCEPT !.read = @ - Len(prepend)]

---------------------------------------------------------------------------
(* The streaming reader: _IGzipReader *)

\* the bytes a push-back file holds for its next read
Pending(f) == IF f.readNone THEN <<>> ELSE PyFrom(f.buffer, f.read)

\* a reader whose first decompressor counts as one that completed a member
IGzipReader_AtEof(file, chunk, eager) ==
    [fp |-> PaddedFile(file, chunk),
     dec |-> [decompressobj EXCEPT !.eof = TRUE], eager |-> eager,
     pos |-> 0, last |-> <<>>, err |-> "none", fed |-> <<>>, stacked |-> FALSE]

\* _IGzipReader.__init__; last and err are the outcome of the latest call.
\* Two observations of the run are kept with the reader: fed is the input
\* that decompressors have consumed, in order, and stacked says that prepend
\* was called while the push-back file still held bytes
IGzipReader(file, chunk, eager) ==
    [fp |-> PaddedFile(file, chunk), dec |-> decompressobj, eager |-> eager,
     pos |-> 0, last |-> <<>>, err |-> "none", fed |-> <<>>, stacked |-> FALSE]

\* lines 189-194: what the decompressor did not take goes back to the file
Requeue(f, d) ==
    IF d.unconsumed_tail # <<>> THEN PaddedPrepend(f, d.unconsumed_tail)
    ELSE IF d.unused_data # <<>> THEN PaddedPrepend(f, d.unused_data)
    ELSE f

\* the input a decompress call left over: unused_data after the end of the
\* member, unconsumed_tail before it
Leftover(d) == IF d.eof THEN d.unused_data ELSE d.unconsumed_tail

\* the part of buf that the call consumed
Consumed(buf, d) == SubSeq(buf, 1, Len(buf) - Len(Leftover(d)))

\* the reader after decompress(buf) returned and left its decompressor as d,
\* with f the push-back file after buf was obtained: lines 189-194
AfterFeed(r, f, buf, d) ==
    [r EXCEPT !.fp = Requeue(f, d), !.dec = d,
              !.fed = @ \o Consumed(buf, d),
              !.stacked = @ \/ ((d.unconsumed_tail # <<>> \/ d.unused_data # <<>>)
                                 /\ Pending(f) # <<>>)]

\* lines 202-203
ReadReturn(r, uncompress) ==
    [r EXCEPT !.pos = @ + Len(uncompress), !.last = uncompress, !.err = "none"]

ReadRaise(r, e) == [r EXCEPT !.last = <<>>, !.err = e]

RECURSIVE ReadLoop(_, _, _, _)

\* a reader that takes an exhausted source for the end of the stream
AfterDecompress_Break(r, size, buf, uncompress, fuel) ==
    IF uncompress # <<>> THEN ReadReturn(r, uncompress)
    ELSE IF buf = <<>> THEN ReadReturn(r, uncompress)
    ELSE ReadLoop(r, size, uncompress, fuel - 1)

\* a reader that returns after one decompressor call, whatever it yielded
AfterDecompress_NoRetry(r, size, buf, uncompress, fuel) ==
    IF uncompress # <<>> THEN ReadReturn(r, uncompress)
    ELSE IF buf = <<>> THEN ReadRaise(r, "EOFError")
    ELSE ReadReturn(r, uncompress)

\* a reader that reads again when the source delivered nothing
AfterDecompress_Retry(r, size, buf, uncompress, fuel) ==
    IF uncompress # <<>> THEN ReadReturn(r, uncompress)
    ELSE ReadLoop(r, size, uncompress, fuel - 1)

\* lines 196-200: the end of one iteration
AfterDecompress(r, size, buf, uncompress, fuel) ==
    IF uncompress # <<>> THEN ReadReturn(r, uncompress)
    ELSE IF buf = <<>> THEN ReadRaise(r, "EOFError")
    ELSE ReadLoop(r, size, uncompress, fuel - 1)

\* a reader for which a source that ends after a member is a failure
NextMember_Raise(r, size, uncompress, fuel) ==
    LET fromFile == PaddedRead(r.fp, BUFFER_SIZE)
        useUnused == r.dec.unused_data # <<>>
        buf == IF useUnused THEN r.dec.unused_data ELSE fromFile.data
        fp1 == IF useUnused THEN r.fp ELSE fromFile.f
        res == Decompress(decompressobj, buf, size, r.eager)
    IN  IF buf = <<>> THEN ReadRaise([r EXCEPT !.fp = fp1], "EOFError")
        ELSE IF res.err
        THEN ReadReturn([r EXCEPT !.fp = fp1, !.dec = res.d], uncompress)
        ELSE AfterDecompress(AfterFeed(r, fp1, buf, res.d), size, buf, res.out, fuel)

\* lines 172-184 and 189-200: the decompressor is at the end of a member
NextMember(r, size, uncompress, fuel) ==
    LET fromFile == PaddedRead(r.fp, BUFFER_SIZE)
        useUnused == r.dec.unused_data # <<>>
        buf == IF useUnused THEN r.dec.unused_data ELSE fromFile.data
        fp1 == IF useUnused THEN r.fp ELSE fromFile.f
        res == Decompress(decompressobj, buf, size, r.eager)
    IN  IF buf = <<>> THEN ReadReturn([r EXCEPT !.fp = fp1], uncompress)
        ELSE IF res.err
        THEN ReadReturn([r EXCEPT !.fp = fp1, !.dec = res.d], uncompress)
        ELSE AfterDecompress(AfterFeed(r, fp1, buf, res.d), size, buf, res.out, fuel)

\* a reader that ignores the codec's error inside a member as well
SameMember_Swallow(r, size, uncompress, fuel) ==
    LET fromFile == PaddedRead(r.fp, BUFFER_SIZE)
        buf == fromFile.data
        res == Decompress(r.dec, buf, size, r.eager)
    IN  IF res.err
        THEN ReadReturn([r EXCEPT !.fp = fromFile.f, !.dec = res.d], uncompress)
        ELSE AfterDecompress(AfterFeed(r, fromFile.f, buf, res.d),
                             size, buf, res.out, fuel)

\* a reader that leaves the loop inside a member when the source is
\* exhausted, as it does between members
SameMember_StopOnEmpty(r, size, uncompress, fuel) ==
    LET fromFile == PaddedRead(r.fp, BUFFER_SIZE)
        buf == fromFile.data
        res == Decompress(r.dec, buf, size, r.eager)
    IN  IF buf = <<>> THEN ReadReturn([r EXCEPT !.fp = fromFile.f], uncompress)
        ELSE IF res.err
        THEN ReadRaise([r EXCEPT !.fp = fromFile.f, !.dec = res.d], "IsalError")
        ELSE AfterDecompress(AfterFeed(r, fromFile.f, buf, res.d),
                             size, buf, res.out, fuel)

\* lines 185-200: the decompressor is inside a member
SameMember(r, size, uncompress, fuel) ==
    LET fromFile == PaddedRead(r.fp, BUFFER_SIZE)
        buf == fromFile.data
        res == Decompress(r.dec, buf, size, r.eager)
    IN  IF res.err
        THEN ReadRaise([r EXCEPT !.fp = fromFile.f, !.dec = res.d], "IsalError")
        ELSE AfterDecompress(AfterFeed(r, fromFile.f, buf, res.d),
                             size, buf, res.out, fuel)

\* the while loop of _IGzipReader.read, lines 171-200; a loop that runs
\* out of fuel is reported as the outcome "loop"
ReadLoop(r, size, uncompress, fuel) ==
    IF fuel = 0 THEN ReadRaise(r, "loop")
    ELSE IF r.dec.eof THEN NextMember(r, size, uncompress, fuel)
    ELSE SameMember(r, size, uncompress, fuel)

\* DecompressReader.readall: read(sys.maxsize) until the result is empty
RECURSIVE ReadAllLoop(_, _, _)
ReadAllLoop(r, chunks, fuel) ==
    IF fuel = 0 THEN ReadRaise(r, "loop")
    ELSE LET n == ReadLoop(r, -1, <<>>, MaxLoop) IN
         IF n.err # "none" THEN n
         ELSE IF n.last = <<>> THEN [n EXCEPT !.last = chunks]
         ELSE ReadAllLoop(n, chunks \o n.last, fuel - 1)

readall(r) == ReadAllLoop(r, <<>>, MaxLoop)

\* a read that passes size 0 on to the decompressor
IGzipReaderRead_NoZero(r, size) ==
    IF size < 0 THEN readall(r)
    ELSE ReadLoop(r, size, <<>>, MaxLoop)

\* _IGzipReader.read(size)
IGzipReaderRead(r, size) ==
    IF size < 0 THEN readall(r)
    ELSE IF size = 0 THEN [r EXCEPT !.last = <<>>, !.err = "none"]
    ELSE ReadLoop(r, size, <<>>, MaxLoop)

---------------------------------------------------------------------------
(* Sources of the reader *)

Payloads == SeqsUpTo(MaxLen)

\* one member as the writer produces it
Member(p, level) == compress(p, level).out

\* the payloads of the members of a source with several members
FewPayloads == {<<>>, <<1, 1>>}

FewSeqs(n) == UNION {[1..k -> FewPayloads] : k \in 1..n}

\* one member with any payload, or up to n members
PayloadSeqs(n) == {<<p>> : p \in Payloads} \cup FewSeqs(n)

RECURSIVE Flatten(_)
Flatten(ps) == IF ps = <<>> THEN <<>> ELSE Head(ps) \o Flatten(Tail(ps))

RECURSIVE Stream(_, _)
Stream(ps, level) ==
    IF ps = <<>> THEN <<>> ELSE Member(Head(ps), level) \o Stream(Tail(ps), level)

SourceLevels == {ISAL_BEST_SPEED, ISAL_BEST_COMPRESSION}

\* a member whose trailer field at distance back from its end is altered
BadTrailer(m, back) ==
    [m EXCEPT ![Len(m) - back] = (@ + 1) % (IF back = 1 THEN CrcMod ELSE SizeMod)]

\* bytes that are not a member header: the first byte is wrong, the second
\* byte is wrong, or the header stops after its first byte
Garbages == {<<255>>, <<255, 255>>, <<ID1, 255>>, <<ID1>>}

ValidSources ==
    {[kind |-> "valid", file |-> Stream(ps, l), expect |-> Flatten(ps)] :
        ps \in PayloadSeqs(MaxMembers), l \in SourceLevels}

TruncatedSources ==
    UNION {{[kind |-> "truncated", file |-> SubSeq(Member(p, l), 1, k), expect |-> p] :
              k \in 1..(Len(Member(p, l)) - 1)} :
           p \in Payloads, l \in SourceLevels}

BadFirstSources ==
    {[kind |-> "badfirst", file |-> BadTrailer(Member(p, l), 1), expect |-> p] :
        p \in Payloads, l \in SourceLevels}

BadLaterSources ==
    {[kind |-> "badlater",
      file |-> Stream(ps, l) \o BadTrailer(Member(p, l), back),
      expect |-> Flatten(ps)] :
        ps \in FewSeqs(MaxMembers - 1), p \in FewPayloads,
        l \in SourceLevels, back \in {0, 1}}

GarbageSources ==
    {[kind |-> "garbage", file |-> Stream(ps, l) \o g, expect |-> Flatten(ps)] :
        ps \in FewSeqs(MaxMembers - 1), l \in SourceLevels, g \in Garbages}

\* two bytes that are not the start of a member header
BadHeads == {<<255, 255>>, <<ID1, 255>>}

\* a source that starts with such bytes, alone or in front of a member
BadHeaderSources ==
    {[kind |-> "badheader", file |-> h \o rest, expect |-> <<>>] :
        h \in BadHeads, rest \in {<<>>, Member(<<1, 1>>, ISAL_BEST_COMPRESSION)}}

\* a source of zero bytes
EmptySources == {[kind |-> "empty", file |-> <<>>, expect |-> <<>>]}

Sources == ValidSources \cup TruncatedSources \cup BadFirstSources
           \cup BadLaterSources \cup GarbageSources
           \cup BadHeaderSources \cup EmptySources

Chunks == 0..MaxChunk

---------------------------------------------------------------------------
(* The reader under a caller: read calls of any size on one reader *)

\* r is the reader; got concatenates the results of all calls; phase tells
\* how the first reading to exhaustion finished ("ended": a call of positive
\* size returned empty or a call of negative size returned, "raised": a call
\* raised firstErr) and gotEnd is got
\* at that moment; bounded says that all calls so far had a positive size.
\* Of the latest call: size is its argument, same says that it left the
\* reader's file, decompressor and position as they were, cleanEnd that it
\* found the decompressor at the end of a member with nothing unused and the
\* source without a byte, long that its loop did more than LongLoop
\* iterations.  emptied says that some call of positive size has returned
\* empty
NoReader ==
    [r |-> IGzipReader(<<>>, 0, FALSE), kind |-> "none", expect |-> <<>>,
     got |-> <<>>, phase |-> "none", gotEnd |-> <<>>, firstErr |-> "none",
     bounded |-> TRUE, size |-> 0,
     same |-> TRUE, cleanEnd |-> FALSE, emptied |-> FALSE, long |-> FALSE]

NewReader(s, chunk, eager) ==
    [NoReader EXCEPT !.r = IGzipReader(s.file, chunk, eager),
                     !.kind = s.kind, !.expect = s.expect, !.phase = "reading"]

\* the decompressor is at the end of a member, left nothing unused, and a
\* read of the source delivers nothing
AtCleanEnd(r) ==
    /\ r.dec.eof
    /\ r.dec.unused_data = <<>>
    /\ PaddedRead(r.fp, BUFFER_SIZE).data = <<>>

\* a call is long when its loop does more than this many iterations
LongLoop == 4

\* the caller's record of a call read(size) that took the reader to n
Called(c, n, size) ==
    LET got1 == c.got \o n.last
        term == c.phase = "reading"
                /\ (n.err # "none" \/ size < 0 \/ (size > 0 /\ n.last = <<>>))
    IN  [c EXCEPT !.r = n, !.got = got1, !.size = size,
                  !.same = /\ n.fp = c.r.fp
                           /\ n.dec = c.r.dec
                           /\ n.pos = c.r.pos
                           /\ n.fed = c.r.fed
                           /\ n.stacked = c.r.stacked,
                  !.cleanEnd = AtCleanEnd(c.r),
                  !.long = size > 0
                           /\ ReadLoop(c.r, size, <<>>, LongLoop).err = "loop",
                  !.emptied = @ \/ (size > 0 /\ n.err = "none" /\ n.last = <<>>),
                  !.bounded = @ /\ size > 0,
                  !.phase = IF ~term THEN @
                            ELSE IF n.err # "none" THEN "raised" ELSE "ended",
                  !.gotEnd = IF term THEN got1 ELSE @,
                  !.firstErr = IF term THEN n.err ELSE @]

RdInit ==
    /\ rd \in {NewReader(s, chunk, eager) :
                  s \in Sources, chunk \in Chunks, eager \in BOOLEAN}
    /\ wr = NoWriter
    /\ os = [pc |-> "none"]
    /\ op = [pc |-> "none"]
    /\ cli = [pc |-> "none"]

\* read(size) with size > 0
RdRead(size) ==
    /\ size > 0
    /\ rd' = Called(rd, IGzipReaderRead(rd.r, size), size)
    /\ UNCHANGED <<wr, os, op, cli>>

\* read(0)
RdReadZero ==
    /\ rd' = Called(rd, IGzipReaderRead(rd.r, 0), 0)
    /\ UNCHANGED <<wr, os, op, cli>>

\* read(-1)
RdReadAll ==
    /\ rd' = Called(rd, IGzipReaderRead(rd.r, -1), -1)
    /\ UNCHANGED <<wr, os, op, cli>>

RdNext ==
    \/ \E size \in 1..MaxRead : RdRead(size)
    \/ RdReadZero
    \/ RdReadAll

Spec == RdInit /\ [][RdNext]_vars

---------------------------------------------------------------------------
(* The writer under a caller *)

Levels == (ISAL_BEST_SPEED - 1)..(ISAL_BEST_COMPRESSION + 1)

WrInit ==
    /\ wr = NoWriter
    /\ rd = NoReader
    /\ os = [pc |-> "none"]
    /\ op = [pc |-> "none"]
    /\ cli = [pc |-> "none"]

\* IGzipFile(filename or fileobj, mode, compresslevel)
WrConstruct(level, mode, byName) ==
    /\ wr.st = "none"
    /\ wr' = [IGzipFileInit(wr, level, mode, byName) EXCEPT !.op = "init"]
    /\ UNCHANGED <<rd, os, op, cli>>

\* the caller's record of a write call that took the writer from w to n
Wrote(w, n, data) ==
    [n EXCEPT !.calls = @ + 1, !.op = "write", !.arg = data,
              !.kept = /\ n.sink = w.sink
                       /\ n.compress = w.compress
                       /\ n.crc = w.crc
                       /\ n.size = w.size
                       /\ n.offset = w.offset]

\* f.write(data)
WrWrite(data) ==
    /\ wr.st \in {"open", "closed"}
    /\ wr.calls < MaxCalls
    /\ wr' = Wrote(wr, IGzipFileWrite(wr, data), data)
    /\ UNCHANGED <<rd, os, op, cli>>

\* f.write(data) while the sink refuses the bytes
WrWriteSinkRaises(data) ==
    /\ wr.st \in {"open", "closed"}
    /\ wr.calls < MaxCalls
    /\ wr' = Wrote(wr, IGzipFileWriteSinkRaises(wr, data), data)
    /\ UNCHANGED <<rd, os, op, cli>>

\* f.close()
WrClose ==
    /\ wr.st \in {"open", "closed"}
    /\ wr.calls < MaxCalls
    /\ LET n == GzipFileClose(wr)
       IN  wr' = [n EXCEPT !.calls = @ + 1, !.op = "close", !.closes = @ + 1,
                           !.sink1 = IF wr.closes = 0 THEN n.sink ELSE @]
    /\ UNCHANGED <<rd, os, op, cli>>

WrNext ==
    \/ \E level \in Levels, mode \in {"wb", "rb"}, byName \in BOOLEAN :
          WrConstruct(level, mode, byName)
    \/ \E data \in SeqsUpTo(MaxLen) : WrWrite(data)
    \/ WrClose

SpecWriter == WrInit /\ [][WrNext]_vars

\* the writer over a sink that may refuse a write
WrFaultNext ==
    \/ WrNext
    \/ \E data \in SeqsUpTo(MaxLen) : WrWriteSinkRaises(data)

SpecWriterFault == WrInit /\ [][WrFaultNext]_vars

---------------------------------------------------------------------------
(* The one-shot API under a caller *)

OsInit ==
    /\ os \in {[pc |-> "start", b1 |-> b1, b2 |-> b2, level |-> level,
                eager |-> eager, c1 |-> <<>>, c2 |-> <<>>, out |-> <<>>,
                err |-> "none"] :
                  b1 \in Payloads, b2 \in Payloads, level \in Levels,
                  eager \in BOOLEAN}
    /\ rd = NoReader
    /\ wr = NoWriter
    /\ op = [pc |-> "none"]
    /\ cli = [pc |-> "none"]

\* c1 = compress(b1, level); c2 = compress(b2, level)
OsCompress ==
    /\ os.pc = "start"
    /\ LET r1 == compress(os.b1, os.level)
           r2 == compress(os.b2, os.level)
       IN  os' = IF r1.err # "none"
                 THEN [os EXCEPT !.pc = "failed", !.err = r1.err, !.out = r1.out]
                 ELSE [os EXCEPT !.pc = "compressed", !.c1 = r1.out, !.c2 = r2.out]
    /\ UNCHANGED <<rd, wr, op, cli>>

\* decompress(c1)
OsDecompress ==
    /\ os.pc = "compressed"
    /\ LET r == decompress(os.c1, os.eager)
       IN  os' = [os EXCEPT !.pc = "one", !.out = r.out, !.err = r.err]
    /\ UNCHANGED <<rd, wr, op, cli>>

\* decompress(c1 + c2)
OsDecompressCat ==
    /\ os.pc = "compressed"
    /\ LET r == decompress(os.c1 \o os.c2, os.eager)
       IN  os' = [os EXCEPT !.pc = "cat", !.out = r.out, !.err = r.err]
    /\ UNCHANGED <<rd, wr, op, cli>>

OsNext == OsCompress \/ OsDecompress \/ OsDecompressCat

SpecOneShot == OsInit /\ [][OsNext]_vars

---------------------------------------------------------------------------
(* open: a mode string is a sequence of characters *)

\* an argument that was not given
None == <<>>

\* ch in mode
HasChar(mode, ch) == \E i \in 1..Len(mode) : mode[i] = ch

\* mode.replace(ch, "")
RemoveChar(mode, ch) == SelectSeq(mode, LAMBDA c : c # ch)

\* the mode gzip.GzipFile takes from a mode string: reading for "r...",
\* writing for "w...", "a..." and "x..."
GzipFileMode(gz_mode) == IF Head(gz_mode) = "r" THEN "rb" ELSE "wb"

\* an open that constructs the file before it looks at its arguments
open_CheckAfter(filename, mode, compresslevel, encoding, errors, newline) ==
    LET gz_mode == RemoveChar(mode, "t")
        binary_file == IGzipFileInit(NoWriter, compresslevel,
                                     GzipFileMode(gz_mode), filename = "path")
    IN  IF filename \notin {"path", "file"}
        THEN [err |-> "TypeError", file |-> NoWriter, text |-> FALSE]
        ELSE IF binary_file.st = "invalid"
        THEN [err |-> "ValueError", file |-> binary_file, text |-> FALSE]
        ELSE IF HasChar(mode, "t") /\ HasChar(mode, "b")
        THEN [err |-> "ValueError", file |-> binary_file, text |-> FALSE]
        ELSE IF ~HasChar(mode, "t")
                /\ (encoding # None \/ errors # None \/ newline # None)
        THEN [err |-> "ValueError", file |-> binary_file, text |-> FALSE]
        ELSE [err |-> "none", file |-> binary_file, text |-> HasChar(mode, "t")]

\* igzip.open(filename, mode, compresslevel, encoding, errors, newline);
\* filename is "path" for a str, bytes or PathLike, "file" for an object
\* with read or write, anything else otherwise.  file is the IGzipFile the
\* call constructed (NoWriter: none), text says that it is wrapped in a
\* TextIOWrapper
open(filename, mode, compresslevel, encoding, errors, newline) ==
    LET fail(e) == [err |-> e, file |-> NoWriter, text |-> FALSE] IN
    IF HasChar(mode, "t") /\ HasChar(mode, "b") THEN fail("ValueError")
    ELSE IF ~HasChar(mode, "t") /\ encoding # None THEN fail("ValueError")
    ELSE IF ~HasChar(mode, "t") /\ errors # None THEN fail("ValueError")
    ELSE IF ~HasChar(mode, "t") /\ newline # None THEN fail("ValueError")
    ELSE LET gz_mode == RemoveChar(mode, "t")
             binary_file == IGzipFileInit(NoWriter, compresslevel,
                                          GzipFileMode(gz_mode), filename = "path")
         IN  IF filename \notin {"path", "file"} THEN fail("TypeError")
             ELSE IF binary_file.st = "invalid"
             THEN [err |-> "ValueError", file |-> binary_file, text |-> FALSE]
             ELSE [err |-> "none", file |-> binary_file,
                   text |-> HasChar(mode, "t")]

\* the mode strings: one of r, w, a, x, then b, t, both or neither
OpenModes == {<<m>> \o f : m \in {"r", "w", "a", "x"},
                           f \in {<<>>, <<"b">>, <<"t">>, <<"b", "t">>, <<"t", "b">>}}

\* an optional argument: not given, or given
Optionals == {None, <<"given">>}

OpInit ==
    /\ op \in {[pc |-> "start", filename |-> filename, mode |-> mode,
                compresslevel |-> level, encoding |-> encoding,
                errors |-> errors, newline |-> newline,
                err |-> "none", file |-> NoWriter, text |-> FALSE] :
                  filename \in {"path", "file", "other"}, mode \in OpenModes,
                  level \in Levels, encoding \in Optionals,
                  errors \in Optionals, newline \in Optionals}
    /\ rd = NoReader
    /\ wr = NoWriter
    /\ os = [pc |-> "none"]
    /\ cli = [pc |-> "none"]

\* open(filename, mode, compresslevel, encoding, errors, newline)
OpOpen ==
    /\ op.pc = "start"
    /\ LET r == open(op.filename, op.mode, op.compresslevel,
                     op.encoding, op.errors, op.newline)
       IN  op' = [op EXCEPT !.pc = "done", !.err = r.err, !.file = r.file,
                            !.text = r.text]
    /\ UNCHANGED <<rd, wr, os, cli>>

OpNext == OpOpen

SpecOpen == OpInit /\ [][OpNext]_vars

---------------------------------------------------------------------------
(* The command line: main.  A path is a sequence of characters *)

PathChars == {".", "g", "z", "/"}

RECURSIVE PathsUpTo(_)
PathsUpTo(n) == IF n = 0 THEN {<<>>}
                ELSE PathsUpTo(n - 1) \cup
                     {Append(s, c) : s \in {t \in PathsUpTo(n - 1) : Len(t) = n - 1},
                                     c \in PathChars}

\* ".gz"
GzExtension == <<".", "g", "z">>

\* p.rfind(ch): the highest index of ch in p, counted from 0, or -1
RFind(p, ch) ==
    LET I == {i \in 1..Len(p) : p[i] = ch}
    IN  IF I = {} THEN -1 ELSE (CHOOSE i \in I : \A j \in I : j <= i) - 1

\* the loop of genericpath._splitext that skips the leading dots of the
\* last component
RECURSIVE SkipDots(_, _, _)
SkipDots(p, filenameIndex, dotIndex) ==
    IF filenameIndex < dotIndex
    THEN IF p[filenameIndex + 1] # "."
         THEN <<PySlice(p, 0, dotIndex), PyFrom(p, dotIndex)>>
         ELSE SkipDots(p, filenameIndex + 1, dotIndex)
    ELSE <<p, <<>>>>

\* os.path.splitext(p)
splitext(p) ==
    LET sepIndex == RFind(p, "/")
        dotIndex == RFind(p, ".")
    IN  IF dotIndex > sepIndex THEN SkipDots(p, sepIndex + 1, dotIndex)
        ELSE <<p, <<>>>>

\* the options of the parser: none, or one of the mutually exclusive group
Flags == {"none", "-0", "--fast", "-1", "-2", "-3", "--best", "-d", "--decompress"}

\* parser.parse_args(): store_const leaves compresslevel None unless a level
\* flag is given, store_false leaves compress True unless -d is given
parse_args(flag, file) ==
    [file |-> file,
     compresslevel |-> CASE flag \in {"-0", "--fast"} -> <<ISAL_BEST_SPEED>>
                         [] flag = "-1" -> <<1>>
                         [] flag = "-2" -> <<2>>
                         [] flag \in {"-3", "--best"} -> <<ISAL_BEST_COMPRESSION>>
                         [] OTHER -> None,
     compress |-> flag \notin {"-d", "--decompress"}]

\* a or b, for an optional integer a: None and 0 are false
PyOr(a, b) == IF a = None \/ a = <<0>> THEN b ELSE a

\* the outcome of a run of main: opened lists the names of the files
\* opened, in order, level is the level of the IGzipFile constructed, out
\* the content of the output file
MainResult(err, out_filename, opened, level, out) ==
    [err |-> err, out_filename |-> out_filename, opened |-> opened,
     level |-> level, out |-> out]

RECURSIVE CopyBlocks(_, _, _, _)

\* lines 272-274 when decompressing, with n the reader after a read: an
\* error ends the run, bytes are copied, an empty read ends the block and
\* an empty block ends the loop
CopyRead(n, out, fresh, fuel) ==
    IF n.err # "none" THEN [out |-> out, err |-> n.err]
    ELSE IF n.last # <<>> THEN CopyBlocks(n, out \o n.last, FALSE, fuel - 1)
    ELSE IF fresh THEN [out |-> out, err |-> "none"]
    ELSE CopyBlocks(n, out, TRUE, fuel - 1)

\* lines 270-274 when decompressing: in_file.read(_BLOCK_SIZE) makes the
\* buffered reader of the IGzipFile read the raw reader until one of its
\* reads returns empty (the content is shorter than a block), and the blocks
\* are copied until one is empty.  fresh says that the current block is
\* still empty
CopyBlocks(r, out, fresh, fuel) ==
    IF fuel = 0 THEN [out |-> out, err |-> "loop"]
    ELSE CopyRead(IGzipReaderRead(r, BLOCK_SIZE), out, fresh, fuel)

\* lines 268-274 when decompressing: the outcome of the copy loop
Copied(res, copy) == [res EXCEPT !.err = copy.err, !.out = copy.out]

\* lines 268-274 when compressing: the content is written, if there is
\* any, and the file is closed
Compressed(res, out_file, content) ==
    [res EXCEPT !.err = out_file.err, !.level = out_file.file.level,
                !.out = GzipFileClose(IF content = <<>> THEN out_file.file
                                      ELSE IGzipFileWrite(out_file.file, content)).sink]

\* a main that decompresses whatever the name of the input is
main_AnyName(flag, file, content, eager) ==
    LET args == parse_args(flag, file)
        compresslevel == PyOr(args.compresslevel, <<ISAL_DEFAULT_COMPRESSION>>)[1]
    IN  IF args.compress
        THEN Compressed(MainResult("none", args.file \o GzExtension,
                                   <<args.file, args.file \o GzExtension>>, 0, <<>>),
                        open("path", <<"w", "b">>, compresslevel, None, None, None),
                        content)
        ELSE Copied(MainResult("none", splitext(args.file)[1],
                               <<args.file, splitext(args.file)[1]>>,
                               ISAL_DEFAULT_COMPRESSION, <<>>),
                    CopyBlocks(IGzipReader(content, 0, eager), <<>>, TRUE, MaxLoop))

\* main(), run as: igzip [flag] file, with content the content of the
\* input file
main(flag, file, content, eager) ==
    LET args == parse_args(flag, file)
        compresslevel == PyOr(args.compresslevel, <<ISAL_DEFAULT_COMPRESSION>>)[1]
    IN  IF args.compress
        THEN Compressed(MainResult("none", args.file \o GzExtension,
                                   <<args.file, args.file \o GzExtension>>, 0, <<>>),
                        open("path", <<"w", "b">>, compresslevel, None, None, None),
                        content)
        ELSE IF splitext(args.file)[2] # GzExtension
        THEN MainResult("ValueError", <<>>, <<>>, 0, <<>>)
        ELSE Copied(MainResult("none", splitext(args.file)[1],
                               <<args.file, splitext(args.file)[1]>>,
                               open("path", <<"r", "b">>, ISAL_DEFAULT_COMPRESSION,
                                    None, None, None).file.level,
                               <<>>),
                    CopyBlocks(IGzipReader(content, 0, eager), <<>>, TRUE, MaxLoop))

\* a run of the command: its flag, its file argument, the content of that
\* file, and the decompressor it will meet
CliRun(flag, file, content, eager) ==
    [pc |-> "start", flag |-> flag, file |-> file, content |-> content,
     eager |-> eager, err |-> "none", out_filename |-> <<>>, opened |-> <<>>,
     level |-> 0, out |-> <<>>]

\* the run c after main returned r
Ran(c, r) ==
    [c EXCEPT !.pc = "done", !.err = r.err, !.out_filename = r.out_filename,
              !.opened = r.opened, !.level = r.level, !.out = r.out]

\* files to compress hold plain bytes; files to decompress hold a member,
\* or bytes that are not one
CliInit ==
    /\ cli \in {CliRun(flag, file, content, FALSE) :
                   flag \in Flags \ {"-d", "--decompress"},
                   file \in PathsUpTo(MaxPath), content \in FewPayloads}
               \cup
               {CliRun(flag, file, content, eager) :
                   flag \in {"-d", "--decompress"}, file \in PathsUpTo(MaxPath),
                   content \in {Member(p, ISAL_BEST_COMPRESSION) : p \in FewPayloads}
                               \cup {<<1, 1>>},
                   eager \in BOOLEAN}
    /\ rd = NoReader
    /\ wr = NoWriter
    /\ os = [pc |-> "none"]
    /\ op = [pc |-> "none"]

\* main()
CliMain ==
    /\ cli.pc = "start"
    /\ cli' = Ran(cli, main(cli.flag, cli.file, cli.content, cli.eager))
    /\ UNCHANGED <<rd, wr, os, op>>

CliNext == CliMain

SpecMain == CliInit /\ [][CliNext]_vars

---------------------------------------------------------------------------
(* Properties of the one-shot API (SpecOneShot) *)

\* C1: decompress(compress(b, L)) returns b for every byte sequence b, the
\* empty one included, and every valid level L
C1_RoundTrip ==
    os.pc = "one" => os.err = "none" /\ os.out = os.b1

C1_Witness ==
    /\ os.pc = "one"
    /\ Len(os.b1) = MaxLen
    /\ os.level = ISAL_BEST_COMPRESSION
    /\ os.out = os.b1

\* C3: decompress(compress(b1, L) + compress(b2, L)) returns b1 + b2
C3_Concatenation ==
    os.pc = "cat" => os.err = "none" /\ os.out = os.b1 \o os.b2

---------------------------------------------------------------------------
(* Properties of the streaming reader (Spec) *)

\* C2: over a source of concatenated valid members the results of the read
\* calls, concatenated, are a prefix of the payloads in source order, and
\* reading until an empty result yields all of them
C2_OrderNoGapNoDup ==
    rd.kind = "valid" =>
        /\ IsPrefix(rd.got, rd.expect)
        /\ rd.phase = "ended" => rd.gotEnd = rd.expect

\* C4: over a member cut at an interior offset no call of non-zero size
\* returns empty as if the stream were complete: a call that delivers no
\* byte raises EOFError, and no other error is raised
C4_Truncation ==
    rd.kind = "truncated" =>
        /\ rd.phase # "ended"
        /\ rd.r.err \in {"none", "EOFError"}
        /\ (rd.size # 0 /\ rd.r.last = <<>>) => rd.r.err = "EOFError"
        /\ IsPrefix(rd.got, rd.expect)

C4_Witness ==
    /\ rd.kind = "truncated"
    /\ rd.r.err = "EOFError"
    /\ rd.got # <<>>
    /\ rd.r.fp.fpos = Len(rd.r.fp.file)

\* C5: over a single member whose trailer checksum is altered reading never
\* ends normally: a call that delivers no byte raises the codec's error
C5_CorruptSingle ==
    rd.kind = "badfirst" =>
        /\ rd.phase # "ended"
        /\ rd.r.err \in {"none", "IsalError"}
        /\ (rd.size # 0 /\ rd.r.last = <<>>) => rd.r.err = "IsalError"
        /\ IsPrefix(rd.got, rd.expect)

C5_Witness ==
    /\ rd.kind = "badfirst"
    /\ rd.r.err = "IsalError"
    /\ rd.got = rd.expect
    /\ rd.expect # <<>>

\* C6: a later member with a well-formed header and payload and a wrong
\* trailer makes read fail; it is never taken for tolerated trailing data
C6_CorruptLater ==
    rd.kind = "badlater" =>
        /\ rd.phase # "ended"
        /\ rd.phase = "raised" => rd.firstErr = "IsalError"

\* C7: over valid members followed by bytes that are not a member header,
\* reading to exhaustion returns the payload of the members and raises
\* no error
C7_TrailingGarbage ==
    rd.kind = "garbage" =>
        /\ rd.phase # "raised"
        /\ rd.phase = "reading" => IsPrefix(rd.got, rd.expect)
        /\ rd.phase = "ended" => rd.gotEnd = rd.expect

\* C8: bounded reads until an empty result give the bytes, or the failure,
\* of one read of negative size on the same source
C8_BoundedEqualsUnbounded ==
    (rd.bounded /\ rd.phase \in {"ended", "raised"}) =>
        LET f == rd.r.fp
            all == IGzipReaderRead(IGzipReader(f.file, f.chunk, rd.r.eager), -1)
        IN  IF all.err = "none"
            THEN rd.phase = "ended" /\ rd.gotEnd = all.last
            ELSE rd.phase = "raised" /\ rd.firstErr = all.err

\* C13: read(0) returns empty, raises nothing and leaves the source, the
\* push-back file, the decompressor and the position as they were, in
\* whatever state the reader is
C13_ReadZero ==
    (rd.kind # "none" /\ rd.size = 0) =>
        /\ rd.r.last = <<>>
        /\ rd.r.err = "none"
        /\ rd.same

C13_Witness ==
    /\ rd.size = 0
    /\ rd.same
    /\ rd.r.pos > 0
    /\ ~rd.r.dec.eof
    /\ Pending(rd.r.fp) # <<>>

\* C14: a read of positive size that finds the decompressor at the end of
\* a member, nothing unused and the source without a byte returns empty
\* and raises no error
C14_CleanEnd ==
    (rd.cleanEnd /\ rd.size > 0) =>
        /\ rd.r.last = <<>>
        /\ rd.r.err = "none"

C14_Witness ==
    /\ rd.cleanEnd
    /\ rd.size > 0
    /\ rd.r.last = <<>>
    /\ rd.got # <<>>
    /\ rd.got = rd.expect

\* C18: the reader never calls prepend while the push-back file still holds
\* bytes of an earlier prepend, and the bytes the file holds are the first
\* bytes of its next read
C18_OnePendingChunk ==
    rd.kind # "none" =>
        /\ ~rd.r.stacked
        /\ ~rd.r.fp.readNone =>
              /\ rd.r.fp.read = 0
              /\ IsPrefix(rd.r.fp.buffer, PaddedRead(rd.r.fp, BUFFER_SIZE).data)

\* C19: over a source of valid members the input that decompressors have
\* consumed, in order, is a prefix of the source: no byte is fed twice
C19_FedOnce ==
    rd.kind = "valid" => IsPrefix(rd.r.fed, rd.r.fp.file)

\* C20: once a read of positive size has returned empty, every later read
\* returns empty and raises no error
C20_EndStable ==
    rd.emptied =>
        /\ rd.r.last = <<>>
        /\ rd.r.err = "none"

\* C22: over a source whose first bytes are not a member header every
\* read of non-zero size raises the codec's error; no call returns data
\* and no call of positive size returns empty as at the end of a stream
C22_MalformedFirst ==
    rd.kind = "badheader" =>
        /\ rd.got = <<>>
        /\ ~rd.emptied
        /\ rd.phase # "ended"
        /\ rd.size # 0 => rd.r.err = "IsalError"

C22_Witness ==
    /\ rd.kind = "badheader"
    /\ rd.phase = "raised"
    /\ rd.size > 0
    /\ rd.r.err = "IsalError"
    /\ rd.r.fp.chunk = 1
    /\ Len(rd.r.fp.file) > 2

\* C27: over a source of zero bytes a read of positive size raises
\* EOFError and does not return an empty result
C27_EmptySource ==
    (rd.kind = "empty" /\ rd.size > 0) =>
        /\ rd.r.err = "EOFError"
        /\ ~rd.emptied
        /\ rd.phase = "raised"

C27_Witness ==
    /\ rd.kind = "empty"
    /\ rd.size > 0
    /\ rd.r.err = "EOFError"
    /\ rd.firstErr = "EOFError"

C24_Terminates ==
    /\ rd.r.err \in {"none", "EOFError", "IsalError"}
    /\ rd.r.err # "none" => rd.r.last = <<>>

\* a call of positive size that went through more than LongLoop iterations
\* over an empty member in front of another member
C24_Witness ==
    /\ rd.long
    /\ rd.size > 0
    /\ rd.kind = "valid"
    /\ rd.r.fp.file[3] = EOB
    /\ rd.r.last # <<>>

\* C25: read(n) with n > 0 returns at most n bytes; over valid members, as
\* long as no call has raised, the input that the decompressor did not
\* consume because the bound was reached is what the push-back file
\* delivers next, so that it is not lost; over a single valid member the
\* reads up to the empty result deliver the whole content
C25_OutputBound ==
    /\ rd.size > 0 => Len(rd.r.last) <= rd.size
    /\ (rd.kind = "valid" /\ rd.phase # "raised"
            /\ rd.r.dec.unconsumed_tail # <<>>) =>
           IsPrefix(rd.r.dec.unconsumed_tail,
                    PaddedRead(rd.r.fp, BUFFER_SIZE).data)
    /\ (rd.kind = "valid" /\ rd.phase = "ended" /\ rd.bounded
            /\ \E p \in Payloads, l \in SourceLevels :
                   rd.r.fp.file = Member(p, l)) =>
           rd.gotEnd = rd.expect

---------------------------------------------------------------------------
(* Properties of open (SpecOpen) *)

\* C15: a mode with both t and b, or a mode without t together with
\* encoding, errors or newline, makes open raise ValueError before an
\* IGzipFile is constructed and before a file is opened or written
C15_OpenMisuse ==
    (/\ op.pc = "done"
     /\ \/ HasChar(op.mode, "t") /\ HasChar(op.mode, "b")
        \/ /\ ~HasChar(op.mode, "t")
           /\ (op.encoding # None \/ op.errors # None \/ op.newline # None))
    => /\ op.err = "ValueError"
       /\ op.file.st = "none"
       /\ ~op.file.myfileobj
       /\ op.file.sink = <<>>

C15_Witness ==
    /\ op.pc = "done"
    /\ op.mode = <<"w", "b">>
    /\ op.filename = "path"
    /\ op.newline # None
    /\ op.encoding = None
    /\ op.errors = None
    /\ LevelOK(op.compresslevel)
    /\ op.err = "ValueError"
    /\ op.file = NoWriter

---------------------------------------------------------------------------
(* Properties of the command line (SpecMain) *)

\* C16: compressing writes to the input path with ".gz" appended;
\* decompressing writes to the input path without its ".gz" extension, and
\* an input path with another extension, or none, fails before a file is
\* opened
C16_OutputNaming ==
    cli.pc = "done" =>
        IF cli.flag \notin {"-d", "--decompress"}
        THEN /\ cli.out_filename = cli.file \o GzExtension
             /\ cli.opened = <<cli.file, cli.out_filename>>
        ELSE IF splitext(cli.file)[2] = GzExtension
        THEN /\ cli.out_filename \o GzExtension = cli.file
             /\ cli.opened = <<cli.file, cli.out_filename>>
        ELSE /\ cli.err = "ValueError"
             /\ cli.opened = <<>>

C16_Witness ==
    /\ cli.pc = "done"
    /\ cli.flag = "-d"
    /\ cli.file = <<"g", ".", "g", "z">>
    /\ cli.out_filename = <<"g">>
    /\ cli.err = "none"
    /\ cli.out = <<1, 1>>

\* C17: -0 and --fast compress with level 0, -1 with level 1, -2 with
\* level 2, -3 and --best with level 3, and no flag with level 2
C17_LevelFlags ==
    (cli.pc = "done" /\ cli.flag \notin {"-d", "--decompress"}) =>
        cli.level = CASE cli.flag \in {"-0", "--fast"} -> 0
                      [] cli.flag = "-1" -> 1
                      [] cli.flag = "-2" -> 2
                      [] cli.flag \in {"-3", "--best"} -> 3
                      [] OTHER -> 2

---------------------------------------------------------------------------
(* Properties of the writer (SpecWriter) *)

\* C9: after any sequence of writes the writer's crc is the running
\* checksum of all data written and size and offset are its length; the
\* trailer appended at close carries that checksum and that size modulo
\* the range of the size field
C9_RunningDigest ==
    (wr.st \in {"open", "closed"} /\ wr.mode = "wb") =>
        /\ wr.crc = crc32(wr.written, 0)
        /\ wr.size = Len(wr.written)
        /\ wr.offset = Len(wr.written)
        /\ wr.st = "closed" =>
              SubSeq(wr.sink, Len(wr.sink) - 1, Len(wr.sink))
                 = <<crc32(wr.written, 0), Len(wr.written) % SizeMod>>

C9_Witness ==
    /\ wr.st = "closed"
    /\ wr.mode = "wb"
    /\ Len(wr.written) > SizeMod
    /\ wr.sink[Len(wr.sink)] = Len(wr.written) - SizeMod

\* C10: a level below the minimum or above the maximum fails with
\* ValueError before the sink is opened and before any byte reaches it;
\* the minimum and the maximum are accepted
C10_LevelValidation ==
    wr.st # "none" =>
        /\ (wr.level < ISAL_BEST_SPEED \/ wr.level > ISAL_BEST_COMPRESSION) =>
              /\ wr.st = "invalid"
              /\ wr.err = "ValueError"
              /\ ~wr.myfileobj
              /\ wr.sink = <<>>
        /\ wr.level \in {ISAL_BEST_SPEED, ISAL_BEST_COMPRESSION} =>
              wr.st # "invalid"

C10_Witness ==
    /\ wr.st = "invalid"
    /\ wr.level = ISAL_BEST_COMPRESSION + 1
    /\ wr.byName

\* C11: whatever was written, a second close leaves the sink as the first
\* close left it, one member with one trailer, and raises no error
C11_IdempotentClose ==
    wr.closes >= 1 =>
        /\ wr.sink = wr.sink1
        /\ wr.op = "close" => wr.err = "none"
        /\ wr.mode = "wb" => wr.sink = compress(wr.written, wr.level).out

C11_Witness ==
    /\ wr.closes = 2
    /\ wr.op = "close"
    /\ wr.mode = "wb"
    /\ wr.level = ISAL_BEST_COMPRESSION
    /\ Len(wr.written) = 1

\* C12: a write that succeeds returns the length of its argument, whether
\* the argument is empty or not
C12_WriteReturnsLength ==
    (wr.op = "write" /\ wr.err = "none") => wr.ret = Len(wr.arg)

C12_Witness ==
    /\ wr.op = "write"
    /\ wr.err = "none"
    /\ wr.level = ISAL_BEST_COMPRESSION
    /\ Len(wr.arg) = MaxLen
    /\ wr.ret = MaxLen

\* C26: a write on a closed object fails with ValueError and a write on an
\* open object in read mode with OSError; either leaves the sink, the
\* compressor, crc, size and offset as they were
C26_WriteRefused ==
    (wr.op = "write" /\ (wr.st = "closed" \/ wr.mode # "wb")) =>
        /\ wr.err = IF wr.st = "closed" THEN "ValueError" ELSE "OSError"
        /\ wr.kept

C26_Witness ==
    /\ wr.op = "write"
    /\ wr.st = "closed"
    /\ wr.mode = "wb"
    /\ wr.err = "ValueError"
    /\ wr.arg # <<>>
    /\ wr.written # <<>>
    /\ wr.level = ISAL_BEST_COMPRESSION

---------------------------------------------------------------------------
(* Properties of the writer over a sink that may fail (SpecWriterFault) *)

\* C21: a write that fails leaves the sink, the compressor, crc, size and
\* offset as they were before the call; the compressor never holds input
\* that crc, size and offset did not count, and the member that close
\* completes decompresses to the data the digest counted
C21_AtomicWrite ==
    /\ (wr.op = "write" /\ wr.err # "none") => wr.kept
    /\ (wr.st = "open" /\ wr.mode = "wb") =>
           wr.compress = CompressFeed(compressobj(wr.level), wr.written, <<>>).c
    /\ (wr.st = "closed" /\ wr.mode = "wb") =>
           decompress(wr.sink, FALSE) = [out |-> wr.written, err |-> "none"]

=============================================================================
